---- MODULE Spec2Model ----
(***************************************************************************)
(* State-machine model of hono-cron: the interval scheduler (CronManager)  *)
(* and the trending-story pipeline with its dedup cache.  One step of the  *)
(* model is the code a JavaScript task runs between two suspension points  *)
(* (awaits): the event loop never interleaves inside such a stretch.       *)
(***************************************************************************)
EXTENDS Integers, Sequences, FiniteSets, TLC

\* ------------------------------------------------------------------ bounds
\* Number of jobs that get registered.
MaxJobs == 2
\* The scheduler clock moves on a grid of 500 ms, up to MaxClock steps.
MaxClock == 3
\* The pipeline clock takes the values d * TTL + e, d <= MaxDays, e <= MaxMs.
MaxDays == 1
MaxMs == 2

\* ------------------------------------------------------- program constants
\* part_002:15  the dedup window, 86400000 ms
TTL == 86400000
\* part_002:111  Math.min(30, topStoryIds.length) in the first pass
FirstPassLimit == 30
\* part_002:135  Math.min(10, topStoryIds.length) in the fallback pass
FallbackLimit == 10
\* part_002:158  fetchTopComments(storyId, count = 3)
CommentCount == 3

\* Intervals jobs are registered with (ms).
Intervals == {1000, 1500}
\* Two call sites of executeDueJobs that may overlap.
Ticks == {"tickA", "tickB"}
\* How a handler's promise settles.
Settlements == {"resolved", "threw"}

\* The two callers of generateHNAndPostTweet: scheduled() and POST /trigger/hn-tweet.
Runs == {"scheduled", "manual"}
\* Item ids whose detail may be a valid story; every other id never is.
Candidates == {1, 11, 31}
\* Lengths of the ranked lists the index returns (the list of length n is <<1..n>>).
ListLens == {1, 11, 31}

VARIABLES
    now,        \* Date.now()
    jobs,       \* CronManager.jobs: sequence of [name, interval, lastRun]
    ticks,      \* per executeDueJobs call: [pc, now, i, len]
    checks,     \* per call: what the loop saw for each job it considered
    postedStories,        \* part_002:5  array of story ids
    lastResetTimestamp,   \* part_002:6
    items,      \* the item-detail source: id -> item
    env,        \* which configuration values are present
    run,        \* per pipeline run: position and locals of generateHNAndPostTweet
    oauth,      \* a call of postToTwitter's signing: parameters, sorted pairs, base string
    event       \* the scheduled event being handled: [pc, cron, ran]

cronVars == <<jobs, ticks, checks>>
hnVars == <<postedStories, lastResetTimestamp, items, env, run>>
signVars == <<oauth>>
entryVars == <<event>>
vars == <<now, jobs, ticks, checks, postedStories, lastResetTimestamp, items, env, run,
          oauth, event>>

\* ------------------------------------------------------------- CronManager

IdleTick == [pc |-> "idle", now |-> 0, i |-> 0, len |-> 0]

\* Faulty variant of IsDue: a job is passed over at exactly one interval.
IsDueStrict(job, tnow) == tnow - job.lastRun > job.interval
\* manager.ts:35  now - job.lastRun >= job.interval
IsDue(job, tnow) == tnow - job.lastRun >= job.interval

\* One consideration of job i by the loop: the lastRun it read and what it did.
CheckEntry(js, i, tnow) ==
    [job |-> i, lastRun |-> js[i].lastRun, interval |-> js[i].interval,
     invoked |-> IsDue(js[i], tnow),
     outcome |-> IF IsDue(js[i], tnow) THEN "pending" ELSE "skipped"]

\* Faulty variant of Scan: the handler is not awaited, the loop calls every due
\* job's handler in one go.
RECURSIVE ScanNoAwait(_, _, _)
ScanNoAwait(js, i, tnow) ==
    IF i > Len(js) THEN <<>>
    ELSE <<CheckEntry(js, i, tnow)>> \o ScanNoAwait(js, i + 1, tnow)
\* manager.ts:34-45  the for-of loop from job i on, run until the first
\* handler call (the await suspends there) or the end of the array.
RECURSIVE Scan(_, _, _)
Scan(js, i, tnow) ==
    IF i > Len(js) THEN <<>>
    ELSE IF IsDue(js[i], tnow) THEN <<CheckEntry(js, i, tnow)>>
    ELSE <<CheckEntry(js, i, tnow)>> \o Scan(js, i + 1, tnow)

\* The tick after the loop ran from job i: suspended in a handler, or resolved.
Resume(t, js, i, tnow, sofar) ==
    LET es == Scan(js, i, tnow)
        all == sofar \o es
        waiting == es # <<>> /\ es[Len(es)].invoked
    IN /\ checks' = [checks EXCEPT ![t] = all]
       /\ ticks' = [ticks EXCEPT ![t] =
                       IF waiting
                       THEN [pc |-> "awaiting", now |-> tnow, i |-> es[Len(es)].job, len |-> 0]
                       ELSE [pc |-> "resolved", now |-> tnow, i |-> 0, len |-> Len(js)]]

\* manager.ts:17-25
registerCronJob(interval) ==
    /\ Len(jobs) < MaxJobs
    /\ jobs' = Append(jobs, [name |-> Len(jobs) + 1, interval |-> interval, lastRun |-> 0])
    /\ UNCHANGED <<now, ticks, checks>>
    /\ UNCHANGED hnVars
    /\ UNCHANGED signVars
    /\ UNCHANGED entryVars

\* manager.ts:51-53  listJobs returns the array; nothing is written.
listJobs ==
    /\ UNCHANGED <<now, jobs, ticks, checks>>
    /\ UNCHANGED hnVars
    /\ UNCHANGED signVars
    /\ UNCHANGED entryVars

\* manager.ts:31-38  a call of executeDueJobs up to its first await
executeDueJobs(t) ==
    /\ ticks[t].pc \in {"idle", "resolved"}
    /\ Resume(t, jobs, 1, now, <<>>)
    /\ UNCHANGED <<now, jobs>>
    /\ UNCHANGED hnVars
    /\ UNCHANGED signVars
    /\ UNCHANGED entryVars

\* Faulty variant of Settle: the settling handler stamps every job.
SettleStampsAll(t, how) ==
    LET i == ticks[t].i
        tnow == ticks[t].now
        marked == [checks[t] EXCEPT ![Len(checks[t])].outcome = how]
    IN /\ jobs' = IF how = "resolved"
                  THEN [j \in DOMAIN jobs |-> [jobs[j] EXCEPT !.lastRun = tnow]]
                  ELSE jobs
       /\ Resume(t, jobs', i + 1, tnow, marked)
\* Faulty variant of Settle: no catch block, a handler error rejects the call.
SettlePropagates(t, how) ==
    LET i == ticks[t].i
        tnow == ticks[t].now
        marked == [checks[t] EXCEPT ![Len(checks[t])].outcome = how]
    IN IF how = "resolved"
       THEN /\ jobs' = [jobs EXCEPT ![i].lastRun = tnow]
            /\ Resume(t, jobs', i + 1, tnow, marked)
       ELSE /\ jobs' = jobs
            /\ checks' = [checks EXCEPT ![t] = marked]
            /\ ticks' = [ticks EXCEPT ![t] = [pc |-> "rejected", now |-> tnow, i |-> 0, len |-> Len(jobs)]]
\* manager.ts:38-43  the awaited handler settles: lastRun is written on the
\* resolved path only; the catch block logs and the loop goes on.
Settle(t, how) ==
    LET i == ticks[t].i
        tnow == ticks[t].now
        marked == [checks[t] EXCEPT ![Len(checks[t])].outcome = how]
    IN /\ jobs' = IF how = "resolved" THEN [jobs EXCEPT ![i].lastRun = tnow] ELSE jobs
       /\ Resume(t, jobs', i + 1, tnow, marked)

handlerSettles(t, how) ==
    /\ ticks[t].pc = "awaiting"
    /\ Settle(t, how)
    /\ UNCHANGED now
    /\ UNCHANGED hnVars
    /\ UNCHANGED signVars
    /\ UNCHANGED entryVars

CronTimes == {k * 500 : k \in 0..MaxClock}

\* Time passes.
advanceClock(T) ==
    /\ \E later \in T : later > now /\ now' = later

cronClock ==
    /\ advanceClock(CronTimes)
    /\ UNCHANGED cronVars
    /\ UNCHANGED hnVars
    /\ UNCHANGED signVars
    /\ UNCHANGED entryVars

\* ------------------------------------------------- trending-story pipeline

Range(q) == {q[k] : k \in DOMAIN q}
Min(a, b) == IF a <= b THEN a ELSE b
\* The item ids of the model are 1..MaxId.
MaxId == 31
StoryIds == 1..MaxId
\* The ranked id list of length n.
Ranked(n) == [k \in 1..n |-> k]
IndexLists == {Ranked(n) : n \in ListLens}

\* fetchTopStory's null, where a story is named by its id.
Null == 0
\* fetchItem's null.
NullItem == [null |-> TRUE]
\* An HNStory as far as the pipeline reads it: is url non-empty, how many kids.
ValidItem == [url |-> TRUE, kids |-> 1]
\* Items that are no valid story: no url (odd ids), or no kids (even ids).
InvalidItem(id) == IF id % 2 = 1 THEN [url |-> FALSE, kids |-> 1] ELSE [url |-> TRUE, kids |-> 0]
ItemWorlds == {[id \in StoryIds |-> IF id \in V THEN ValidItem ELSE InvalidItem(id)] :
                  V \in SUBSET Candidates}

\* part_002:121,138  story && story.url && story.kids && story.kids.length > 0
IsValidStory(story) == story # NullItem /\ story.url /\ story.kids > 0

\* Faulty variant of Expired: the window already expires at exactly 24h.
ExpiredInclusive(t, last) == t - last >= TTL
\* part_002:15  now - lastResetTimestamp > 86400000
Expired(t, last) == t - last > TTL

\* part_002:12-20  the module state after checkAndResetCache()
checkAndResetCache ==
    IF Expired(now, lastResetTimestamp)
    THEN [postedStories |-> <<>>, lastResetTimestamp |-> now]
    ELSE [postedStories |-> postedStories, lastResetTimestamp |-> lastResetTimestamp]

\* Faulty variant of markStoryAsPosted: the id is never recorded.
markNothing(posted, storyId) == posted
\* part_002:26-31
markStoryAsPosted(posted, storyId) ==
    IF storyId \in Range(posted) THEN posted ELSE Append(posted, storyId)

\* Faulty variant of NextUnposted: the first pass without the dedup filter.
NextUnfiltered(ids, i, posted) ==
    IF i > Min(FirstPassLimit, Len(ids)) THEN 0 ELSE i
\* part_002:111-118  the first-pass loop from index i: the first index whose id
\* is not in postedStories, 0 when the loop runs out.
RECURSIVE NextUnposted(_, _, _)
NextUnposted(ids, i, posted) ==
    IF i > Min(FirstPassLimit, Len(ids)) THEN 0
    ELSE IF ids[i] \in Range(posted) THEN NextUnposted(ids, i + 1, posted)
    ELSE i

\* Faulty variant of FallbackBound: the fallback scans as far as the first pass.
FallbackBoundWide(ids) == Min(FirstPassLimit, Len(ids))
\* part_002:135  the fallback loop's bound
FallbackBound(ids) == Min(FallbackLimit, Len(ids))

\* ---- the completion reply and parseTweet (part_001:222-239)
\* A reply is a JSON text of one of these kinds, possibly inside a code fence.
JsonKinds == {"tweet", "emptytweet", "notweet", "scalar", "null", "garbage"}
Replies == [fenced : BOOLEAN, json : JsonKinds]
\* part_000:123-130  what getAIResponse returns when the request failed, the
\* status was not 2xx or the reply had no content: 'Something went wrong'.
WentWrong == [fenced |-> FALSE, json |-> "garbage"]
\* The replies of the story pipeline's runs: a tweet, and a JSON object
\* without one (SpecJobs has every reply).
HNReplies == {[fenced |-> FALSE, json |-> "tweet"], [fenced |-> FALSE, json |-> "notweet"]}
\* No reply yet.
NoReply == [fenced |-> FALSE, json |-> "none"]
Undefined == "undefined"
\* part_001:225-228  JSON.parse(res), then parsedRes.tweet || parsedRes.toString();
\* "throws" when the text is no JSON or the value is null.
FirstParse(res) ==
    IF res.fenced \/ res.json \in {"garbage", "null"} THEN "throws"
    ELSE IF res.json = "tweet" THEN "tweet text"
    ELSE IF res.json \in {"emptytweet", "notweet"} THEN "[object Object]"
    ELSE "scalar text"
\* part_001:231-236  JSON.parse(stripped).tweet, undefined when that throws
SecondParse(res) ==
    IF res.json \in {"garbage", "null"} THEN Undefined
    ELSE IF res.json = "tweet" THEN "tweet text"
    ELSE IF res.json = "emptytweet" THEN ""
    ELSE Undefined
parseTweet(res) == IF FirstParse(res) # "throws" THEN FirstParse(res) ELSE SecondParse(res)
\* Faulty variant of Falsy: nothing counts as "no tweet".
FalsyNever(v) == FALSE
\* part_002:252, 267 (tweet || null, !tweetContent); tweet.cron.ts:43 (!originalTweet)
Falsy(v) == v \in {Undefined, ""}

\* ---- texts and escapeTelegramMarkdown (part_001:46-59)
\* The characters of a parsed tweet.
Chars(content) ==
    CASE content = "tweet text" -> <<"a", ".", "b", "!", "c">>
      [] content = "[object Object]" -> <<"[", "o", "]">>
      [] content = "scalar text" -> <<"4", "2">>
      [] OTHER -> <<>>
\* part_001:47-49  (the grave accent is written "backtick")
specialCharacters ==
    <<"_", "*", "[", "]", "(", ")", "~", "backtick", ">", "#", "+", "-", "=", "|", "{", "}",
      ".", "!", "?", "@">>
\* part_001:53-54  teleTweet.replace(/\\char/g, "\\" + char)
RECURSIVE ReplaceAll(_, _)
ReplaceAll(text, char) ==
    IF text = <<>> THEN <<>>
    ELSE (IF Head(text) = char THEN <<"\\", char>> ELSE <<Head(text)>>)
             \o ReplaceAll(Tail(text), char)
\* part_001:52-55  the forEach over the first n special characters
RECURSIVE EscapeWith(_, _)
EscapeWith(text, n) ==
    IF n = 0 THEN text ELSE ReplaceAll(EscapeWith(text, n - 1), specialCharacters[n])
escapeTelegramMarkdown(tweet) == EscapeWith(tweet, Len(specialCharacters))

\* ---- the random-word service (tweet.cron.ts:8-12)
\* What the request of generateRandomWords meets: a network error, or a
\* response with a status and a body.  An error response of the service carries
\* no JSON array.
NetworkError == [ok |-> FALSE, body |-> "network error"]
NoWords == [ok |-> FALSE, body |-> "none"]
WordReplies ==
    {NetworkError} \cup
    {w \in [ok : BOOLEAN, body : {"array", "object", "notjson"}] :
        w.body = "array" => w.ok}

\* ---- a run of a job handler: generateHNAndPostTweet ("hn") or
\* generateAndPostTweet ("rw")
IdleRun ==
    [pc |-> "idle", job |-> "none", ids |-> <<>>, i |-> 0, pass |-> 0, story |-> Null,
     words |-> NoWords, reply |-> NoReply, aiFailed |-> FALSE,
     content |-> Undefined, tw |-> "none", tg |-> "none", success |-> FALSE,
     \* the requests made to the two publish surfaces
     signed |-> FALSE, twReq |-> 0, twText |-> <<>>, tgReq |-> 0, tgText |-> <<>>,
     \* history of the run, for the properties
     startTime |-> 0, reset |-> FALSE, startSet |-> <<>>, cleared |-> FALSE,
     fetched |-> {}, failed |-> FALSE, stale |-> FALSE]

FullEnv ==
    [TWITTER_CONSUMER_KEY |-> TRUE, TWITTER_CONSUMER_SECRET |-> TRUE,
     TWITTER_ACCESS_TOKEN |-> TRUE, TWITTER_ACCESS_SECRET |-> TRUE,
     TG_BOT_TOKEN |-> TRUE, TG_CHAT_ID |-> TRUE]
\* Every environment: each credential present or missing.
Envs ==
    [TWITTER_CONSUMER_KEY : BOOLEAN, TWITTER_CONSUMER_SECRET : BOOLEAN,
     TWITTER_ACCESS_TOKEN : BOOLEAN, TWITTER_ACCESS_SECRET : BOOLEAN,
     TG_BOT_TOKEN : BOOLEAN, TG_CHAT_ID : BOOLEAN]

\* A read of postedStories at the current time, noted in the run's history.
Reads(rec) == [rec EXCEPT !.stale = @ \/ Expired(now, lastResetTimestamp)]

\* part_002:145-149, 228-231, 267-270  fetchTopStory returns null: the run ends
\* without content.
NoStory(r, rec, posted) ==
    /\ run' = [run EXCEPT ![r] = [rec EXCEPT !.pc = "done", !.story = Null]]
    /\ postedStories' = posted

\* part_002:123-124, 139-140  a valid story: mark it, return it; the caller goes
\* on to fetchTopComments.
Selected(r, rec, storyId) ==
    /\ postedStories' = markStoryAsPosted(postedStories, storyId)
    /\ run' = [run EXCEPT ![r] = [rec EXCEPT !.pc = "comments", !.story = storyId]]

\* Faulty variant of Fallback: the second pass without clearing the set.
FallbackKeepsSet(r, rec) ==
    IF Len(postedStories) > 0
    THEN /\ postedStories' = postedStories
         /\ run' = [run EXCEPT ![r] = [rec EXCEPT !.pass = 2, !.pc = "item2", !.i = 1]]
    ELSE NoStory(r, rec, postedStories)
\* part_002:128-145  after the first pass found nothing.
Fallback(r, rec) ==
    IF Len(postedStories) > 0
    THEN /\ postedStories' = <<>>
         /\ run' = [run EXCEPT ![r] =
                       [rec EXCEPT !.cleared = TRUE, !.pass = 2, !.pc = "item2", !.i = 1]]
    ELSE NoStory(r, rec, postedStories)

\* part_002:111-126  the first pass from index i, up to its next fetchItem.
FirstPassFrom(r, rec, i) ==
    LET k == NextUnposted(rec.ids, i, postedStories)
    IN IF k # 0
       THEN /\ run' = [run EXCEPT ![r] = [Reads(rec) EXCEPT !.pc = "item1", !.i = k]]
            /\ postedStories' = postedStories
       ELSE Fallback(r, Reads(rec))

\* part_002:100-105  fetchTopStory up to the await of fetchTopStories: the
\* window check and reset of checkAndResetCache (part_002:12-20).
startRun(r) ==
    /\ run[r].pc = "idle"
    /\ postedStories' = checkAndResetCache.postedStories
    /\ lastResetTimestamp' = checkAndResetCache.lastResetTimestamp
    /\ run' = [run EXCEPT ![r] =
                  [IdleRun EXCEPT !.pc = "topStories", !.job = "hn", !.pass = 1,
                                  !.startTime = now,
                                  !.reset = Expired(now, lastResetTimestamp),
                                  !.startSet = postedStories']]
    /\ UNCHANGED <<now, items, env>>
    /\ UNCHANGED cronVars
    /\ UNCHANGED signVars

\* part_002:65-76, 105-118  fetchTopStories resolves with the ranked list, or
\* with [] after a failed request; an empty list throws and null is returned.
topStoriesReturn(r, ids) ==
    /\ run[r].pc = "topStories"
    /\ LET rec == [run[r] EXCEPT !.ids = ids, !.failed = (ids = <<>>)]
       IN IF ids = <<>>
          THEN NoStory(r, rec, postedStories)
          ELSE FirstPassFrom(r, rec, 1)
    /\ UNCHANGED <<now, lastResetTimestamp, items, env>>
    /\ UNCHANGED cronVars
    /\ UNCHANGED signVars
    /\ UNCHANGED entryVars

\* part_002:83-94, 120-126  fetchItem resolves in the first pass: the item, or
\* null after a failed request.
itemReturnsFirstPass(r, ok) ==
    /\ run[r].pc = "item1"
    /\ LET id == run[r].ids[run[r].i]
           story == IF ok THEN items[id] ELSE NullItem
           rec == [run[r] EXCEPT !.fetched = @ \cup {id}, !.failed = @ \/ ~ok]
       IN IF IsValidStory(story)
          THEN Selected(r, Reads(rec), id)
          ELSE FirstPassFrom(r, rec, run[r].i + 1)
    /\ UNCHANGED <<now, lastResetTimestamp, items, env>>
    /\ UNCHANGED cronVars
    /\ UNCHANGED signVars
    /\ UNCHANGED entryVars

\* part_002:135-145  fetchItem resolves in the fallback pass.
itemReturnsFallback(r, ok) ==
    /\ run[r].pc = "item2"
    /\ LET id == run[r].ids[run[r].i]
           story == IF ok THEN items[id] ELSE NullItem
           rec == [run[r] EXCEPT !.failed = @ \/ ~ok]
       IN IF IsValidStory(story)
          THEN Selected(r, Reads(rec), id)
          ELSE IF run[r].i + 1 <= FallbackBound(run[r].ids)
          THEN /\ run' = [run EXCEPT ![r] = [rec EXCEPT !.i = @ + 1]]
               /\ postedStories' = postedStories
          ELSE NoStory(r, rec, postedStories)
    /\ UNCHANGED <<now, lastResetTimestamp, items, env>>
    /\ UNCHANGED cronVars
    /\ UNCHANGED signVars
    /\ UNCHANGED entryVars

\* part_002:158-178, 236-248  fetchTopComments resolves with the comments that
\* have text (at most CommentCount); none ends the run.
commentsReturn(r, kept) ==
    /\ run[r].pc = "comments"
    /\ run' = [run EXCEPT ![r].pc = IF kept = 0 THEN "done" ELSE "ai"]
    /\ UNCHANGED <<now, postedStories, lastResetTimestamp, items, env>>
    /\ UNCHANGED cronVars
    /\ UNCHANGED signVars
    /\ UNCHANGED entryVars

\* part_001:130-138  postToTwitter goes on only with all four credentials.
\* Faulty variant of CredsComplete: only the consumer key is looked at.
CredsKeyOnly(e) == e.TWITTER_CONSUMER_KEY
CredsComplete(e) ==
    /\ e.TWITTER_CONSUMER_KEY /\ e.TWITTER_CONSUMER_SECRET
    /\ e.TWITTER_ACCESS_TOKEN /\ e.TWITTER_ACCESS_SECRET

\* part_002:274, tweet.cron.ts:48  the prefix the handler passes to postTweet
Prefix(rec) == IF rec.job = "hn" THEN "HN cron job: " ELSE "Random word tweet: "

\* part_001:262-265, 68-91  postTweet from the escaping on: the text is escaped
\* and sendTelegramMessage sends prefix + text when token and chat id are
\* present; without them it returns false and postTweet returns.
ToTelegram(rec) ==
    LET teleTweet == escapeTelegramMarkdown(Chars(rec.content))
    IN IF env.TG_BOT_TOKEN /\ env.TG_CHAT_ID
       THEN [rec EXCEPT !.pc = "telegram", !.tg = "sent", !.tgReq = @ + 1,
                        !.tgText = <<Prefix(rec)>> \o teleTweet]
       ELSE [rec EXCEPT !.pc = "done", !.tg = "nocreds"]

\* part_001:248-254, 126-200  postTweet up to its first request: with the
\* consumer key postToTwitter is called, which signs and sends {text: content}
\* when no credential is missing and returns false otherwise; without the key
\* the microblog surface is skipped.
BeginPost(rec) ==
    IF ~env.TWITTER_CONSUMER_KEY THEN ToTelegram([rec EXCEPT !.tw = "skipped"])
    ELSE IF ~CredsComplete(env) THEN ToTelegram([rec EXCEPT !.tw = "nocreds"])
    ELSE [rec EXCEPT !.pc = "twitter", !.tw = "sent", !.signed = TRUE,
                     !.twReq = @ + 1, !.twText = Chars(rec.content)]

\* part_000:95-131, part_002:248-253, 266-273, tweet.cron.ts:38-48  the
\* completion call returns (the reply, or 'Something went wrong' after a
\* failure) and the reply is parsed; a falsy tweet ends the run, anything else
\* is posted.
aiReturns(r, ok, reply) ==
    /\ run[r].pc = "ai"
    /\ LET res == IF ok THEN reply ELSE WentWrong
           tweet == parseTweet(res)
           rec == [run[r] EXCEPT !.reply = res, !.aiFailed = ~ok]
       IN run' = [run EXCEPT ![r] =
                     IF Falsy(tweet) THEN [rec EXCEPT !.pc = "done"]
                     ELSE BeginPost([rec EXCEPT !.content = tweet])]
    /\ UNCHANGED <<now, postedStories, lastResetTimestamp, items, env>>
    /\ UNCHANGED cronVars
    /\ UNCHANGED signVars
    /\ UNCHANGED entryVars

PostOutcomes == {"accepted", "rejected", "error"}

\* Faulty variant of twitterSettled: a thrown request ends postTweet.
twitterSettledStops(rec, outcome) ==
    IF outcome = "error" THEN [rec EXCEPT !.pc = "done", !.tw = outcome]
    ELSE ToTelegram([rec EXCEPT !.tw = outcome, !.success = (outcome = "accepted")])
\* part_001:202-214, 254-265  postToTwitter returns true for a 2xx response and
\* false for any other or a thrown error; postTweet goes on to the chat surface.
twitterSettled(rec, outcome) ==
    ToTelegram([rec EXCEPT !.tw = outcome, !.success = (outcome = "accepted")])

\* Faulty variant of telegramSettled: the chat outcome alone decides.
telegramSettledAlone(rec, outcome) ==
    [rec EXCEPT !.pc = "done", !.tg = outcome, !.success = (outcome = "accepted")]
\* part_001:93-106, 264-270  sendTelegramMessage returns true for a 2xx response
\* and false otherwise; postTweet returns success.
telegramSettled(rec, outcome) ==
    [rec EXCEPT !.pc = "done", !.tg = outcome, !.success = @ \/ (outcome = "accepted")]

\* part_001:193-215  the microblog request settles.
twitterReturns(r, outcome) ==
    /\ run[r].pc = "twitter"
    /\ run' = [run EXCEPT ![r] = twitterSettled(@, outcome)]
    /\ UNCHANGED <<now, postedStories, lastResetTimestamp, items, env>>
    /\ UNCHANGED cronVars
    /\ UNCHANGED signVars
    /\ UNCHANGED entryVars

\* part_001:68-107  the chat request settles.
telegramReturns(r, outcome) ==
    /\ run[r].pc = "telegram"
    /\ run' = [run EXCEPT ![r] = telegramSettled(@, outcome)]
    /\ UNCHANGED <<now, postedStories, lastResetTimestamp, items, env>>
    /\ UNCHANGED cronVars
    /\ UNCHANGED signVars
    /\ UNCHANGED entryVars

\* ---- generateAndPostTweet (tweet.cron.ts:31-54)
\* Faulty variant of HandlerCatch: the error leaves the handler.
HandlerRethrows(rec) == [rec EXCEPT !.pc = "rejected"]
\* tweet.cron.ts:51-53  the catch around the handler's body: log, return.
HandlerCatch(rec) == [rec EXCEPT !.pc = "done"]

\* tweet.cron.ts:31-34, 8-9  the handler up to the request for two random words.
startRandom(r) ==
    /\ run[r].pc = "idle"
    /\ run' = [run EXCEPT ![r] = [IdleRun EXCEPT !.pc = "words", !.job = "rw",
                                                  !.startTime = now]]
    /\ UNCHANGED <<now, postedStories, lastResetTimestamp, items, env>>
    /\ UNCHANGED cronVars
    /\ UNCHANGED signVars

\* tweet.cron.ts:9-11, 34-38  the request settles: a network error, a body that
\* is no JSON, or a JSON value that cannot be destructured throws into the
\* handler's catch; an array gives the two words of the prompt.
wordsReturn(r, w) ==
    /\ run[r].pc = "words"
    /\ LET rec == [run[r] EXCEPT !.words = w]
       IN run' = [run EXCEPT ![r] =
                     IF w.body = "array" THEN [rec EXCEPT !.pc = "ai"]
                     ELSE HandlerCatch(rec)]
    /\ UNCHANGED <<now, postedStories, lastResetTimestamp, items, env>>
    /\ UNCHANGED cronVars
    /\ UNCHANGED signVars
    /\ UNCHANGED entryVars

\* The handler's promise has settled and its caller is gone.
finishRun(r) ==
    /\ run[r].pc = "done"
    /\ run' = [run EXCEPT ![r] = IdleRun]
    /\ UNCHANGED <<now, postedStories, lastResetTimestamp, items, env>>
    /\ UNCHANGED cronVars
    /\ UNCHANGED signVars
    /\ UNCHANGED entryVars

HNTimes == {d * TTL + e : d \in 0..MaxDays, e \in 0..MaxMs}

hnClock ==
    /\ advanceClock(HNTimes)
    /\ UNCHANGED cronVars
    /\ UNCHANGED hnVars
    /\ UNCHANGED signVars
    /\ UNCHANGED entryVars

\* A run that starts when no other run is in progress.
startRunAlone(r) ==
    /\ \A o \in Runs \ {r} : run[o].pc = "idle"
    /\ startRun(r)
    /\ UNCHANGED entryVars

\* ---- the signature base string of postToTwitter (part_001:154-176)

\* The parameter names of oauthParams (part_001:154-161).
OAuthKeys ==
    {"oauth_consumer_key", "oauth_nonce", "oauth_signature_method",
     "oauth_timestamp", "oauth_token", "oauth_version"}
\* The characters of a parameter name.
KeyChars(key) ==
    CASE key = "oauth_consumer_key" ->
           <<"o", "a", "u", "t", "h", "_", "c", "o", "n", "s", "u", "m",
             "e", "r", "_", "k", "e", "y">>
      [] key = "oauth_nonce" ->
           <<"o", "a", "u", "t", "h", "_", "n", "o", "n", "c", "e">>
      [] key = "oauth_signature_method" ->
           <<"o", "a", "u", "t", "h", "_", "s", "i", "g", "n", "a", "t",
             "u", "r", "e", "_", "m", "e", "t", "h", "o", "d">>
      [] key = "oauth_timestamp" ->
           <<"o", "a", "u", "t", "h", "_", "t", "i", "m", "e", "s", "t",
             "a", "m", "p">>
      [] key = "oauth_token" ->
           <<"o", "a", "u", "t", "h", "_", "t", "o", "k", "e", "n">>
      [] key = "oauth_version" ->
           <<"o", "a", "u", "t", "h", "_", "v", "e", "r", "s", "i", "o",
             "n">>
\* The consumer keys of the model: one with a character that must be encoded.
ConsumerKeys == {<<"c", "k">>, <<"c", "&", "k">>}
\* part_001:154-161  the value of each parameter
OAuthValue(key, consumerKey) ==
    CASE key = "oauth_consumer_key" -> consumerKey
      [] key = "oauth_nonce" -> <<"n", "7">>
      [] key = "oauth_signature_method" ->
           <<"H", "M", "A", "C", "-", "S", "H", "A", "1">>
      [] key = "oauth_timestamp" -> <<"1", "7">>
      [] key = "oauth_token" -> <<"t", "-", "k">>
      [] key = "oauth_version" -> <<"1", ".", "0">>
\* part_001:127
TweetsUrl ==
    <<"h", "t", "t", "p", "s", ":", "/", "/", "a", "p", "i", ".", "t", "w",
      "i", "t", "t", "e", "r", ".", "c", "o", "m", "/", "2", "/", "t", "w",
      "e", "e", "t", "s">>

\* The UTF-16 code units of the characters of parameter names, in their order:
\* "_" (95) comes before "a" (97) .. "z" (122).
KeyAlphabet ==
    <<"_", "a", "b", "c", "d", "e", "f", "g", "h", "i", "j", "k", "l", "m",
      "n", "o", "p", "q", "r", "s", "t", "u", "v", "w", "x", "y", "z">>
CodeUnit(c) == CHOOSE k \in 1..Len(KeyAlphabet) : KeyAlphabet[k] = c

\* Faulty variant of Before: the shorter name first, then by code units.
RECURSIVE BeforeByLength(_, _)
BeforeByLength(a, b) ==
    IF Len(a) # Len(b) THEN Len(a) < Len(b)
    ELSE IF a = <<>> THEN FALSE
    ELSE IF Head(a) # Head(b) THEN CodeUnit(Head(a)) < CodeUnit(Head(b))
    ELSE BeforeByLength(Tail(a), Tail(b))
\* part_001:170  Array.prototype.sort() without a comparator: a comes before b
\* when it is smaller in the order of the strings' code units.
RECURSIVE Before(_, _)
Before(a, b) ==
    IF b = <<>> THEN FALSE
    ELSE IF a = <<>> THEN TRUE
    ELSE IF Head(a) # Head(b) THEN CodeUnit(Head(a)) < CodeUnit(Head(b))
    ELSE Before(Tail(a), Tail(b))

\* part_001:170  an element put in its place in a sorted array
RECURSIVE Insert(_, _)
Insert(sorted, key) ==
    IF sorted = <<>> THEN <<key>>
    ELSE IF Before(KeyChars(key), KeyChars(Head(sorted))) THEN <<key>> \o sorted
    ELSE <<Head(sorted)>> \o Insert(Tail(sorted), key)
\* part_001:169-170  Object.keys(oauthParams).sort()
RECURSIVE SortKeys(_)
SortKeys(keys) ==
    IF keys = <<>> THEN <<>> ELSE Insert(SortKeys(Tail(keys)), Head(keys))

\* encodeURIComponent of one character: letters, digits and - _ . ! ~ * ' ( )
\* stay, the others become the percent form of their UTF-8 bytes.
EncodeChar(c) ==
    CASE c = "&" -> <<"%", "2", "6">>
      [] c = "=" -> <<"%", "3", "D">>
      [] c = "%" -> <<"%", "2", "5">>
      [] c = ":" -> <<"%", "3", "A">>
      [] c = "/" -> <<"%", "2", "F">>
      [] OTHER -> <<c>>
RECURSIVE encodeURIComponent(_)
encodeURIComponent(text) ==
    IF text = <<>> THEN <<>>
    ELSE EncodeChar(Head(text)) \o encodeURIComponent(Tail(text))

\* part_001:171-174  key=encodeURIComponent(value) for each sorted key
PairsOf(keys, consumerKey) ==
    [k \in 1..Len(keys) |->
        [key |-> keys[k],
         text |-> KeyChars(keys[k]) \o <<"=">>
                     \o encodeURIComponent(OAuthValue(keys[k], consumerKey))]]
\* part_001:175  .join('&')
RECURSIVE JoinPairs(_)
JoinPairs(pairs) ==
    IF pairs = <<>> THEN <<>>
    ELSE IF Len(pairs) = 1 THEN pairs[1].text
    ELSE pairs[1].text \o <<"&">> \o JoinPairs(Tail(pairs))
\* part_001:164-176  ['POST', encodeURIComponent(url), encodeURIComponent(...)].join('&')
SignatureBaseString(pairs) ==
    <<"P", "O", "S", "T", "&">> \o encodeURIComponent(TweetsUrl) \o <<"&">>
        \o encodeURIComponent(JoinPairs(pairs))

\* The orders in which the parameters of a non-empty set can be supplied.
KeyOrders ==
    UNION {{q \in [1..n -> OAuthKeys] : \A a, b \in 1..n : a # b => q[a] # q[b]} :
              n \in 1..Cardinality(OAuthKeys)}
\* No call yet; "before" keeps the base string of the call before this one.
NoSigning ==
    [pc |-> "idle", keys |-> <<>>, consumerKey |-> <<>>, pairs |-> <<>>, base |-> <<>>,
     before |-> <<>>]

\* part_001:164-176  the base string of a call is built.
buildBaseString ==
    /\ oauth.pc = "called"
    /\ LET pairs == PairsOf(SortKeys(oauth.keys), oauth.consumerKey)
       IN oauth' = [oauth EXCEPT !.pc = "built", !.pairs = pairs,
                                 !.base = SignatureBaseString(pairs)]
    /\ UNCHANGED now
    /\ UNCHANGED cronVars
    /\ UNCHANGED hnVars
    /\ UNCHANGED entryVars

\* The same parameters are supplied again, in another order.
callAgain(keys) ==
    /\ oauth.pc = "built"
    /\ Range(keys) = Range(oauth.keys)
    /\ oauth' = [NoSigning EXCEPT !.pc = "called", !.keys = keys,
                                  !.consumerKey = oauth.consumerKey,
                                  !.before = oauth.base]
    /\ UNCHANGED now
    /\ UNCHANGED cronVars
    /\ UNCHANGED hnVars
    /\ UNCHANGED entryVars

\* A run of the random-word handler that starts when no other run is in progress.
startRandomAlone(r) ==
    /\ \A o \in Runs \ {r} : run[o].pc = "idle"
    /\ startRandom(r)
    /\ UNCHANGED entryVars

\* part_000:36-39, 71-72  a run that starts whatever the other run is doing: a
\* manual trigger during a scheduled run, or the other way round.
startRunOverlapping(r) ==
    /\ startRun(r)
    /\ UNCHANGED entryVars

\* ---- the scheduled entry point (part_000:61-78)
RandomPattern == "0 */2 * * *"
HNPattern == "0 */5 * * *"
\* The cron patterns of the events: the two of part_000:69-71 and another one.
CronPatterns == {RandomPattern, HNPattern, "*/30 * * * *"}
\* No event yet; "ran" is the set of job handlers the event has invoked.
NoEvent == [pc |-> "idle", cron |-> "none", ran |-> {}]

\* part_000:61-77  scheduled() up to its await: the pattern of the random-word
\* job invokes generateAndPostTweet, the pattern of the story job invokes
\* generateHNAndPostTweet, any other pattern logs 'Running fallback: executing
\* both cron jobs' and 'Cron job processing completed' and returns.
scheduledStarts(cron) ==
    /\ event.pc \in {"idle", "completed"}
    /\ IF cron = RandomPattern
       THEN /\ startRandom("scheduled")
            /\ event' = [pc |-> "awaiting", cron |-> cron, ran |-> {"rw"}]
       ELSE IF cron = HNPattern
       THEN /\ startRun("scheduled")
            /\ event' = [pc |-> "awaiting", cron |-> cron, ran |-> {"hn"}]
       ELSE /\ event' = [pc |-> "completed", cron |-> cron, ran |-> {}]
            /\ UNCHANGED now
            /\ UNCHANGED cronVars
            /\ UNCHANGED hnVars
            /\ UNCHANGED signVars

\* part_000:69-77  the awaited handler has settled; scheduled() logs and returns.
scheduledCompletes ==
    /\ event.pc = "awaiting"
    /\ run["scheduled"].pc = "done"
    /\ event' = [event EXCEPT !.pc = "completed"]
    /\ run' = [run EXCEPT !["scheduled"] = IdleRun]
    /\ UNCHANGED <<now, postedStories, lastResetTimestamp, items, env>>
    /\ UNCHANGED cronVars
    /\ UNCHANGED signVars

\* ------------------------------------------------------- specifications

CronStart ==
    /\ jobs = <<>>
    /\ ticks = [t \in Ticks |-> IdleTick]
    /\ checks = [t \in Ticks |-> <<>>]

\* part_002:5-6  module load: empty cache, lastResetTimestamp = Date.now()
HNStart ==
    /\ postedStories = <<>>
    /\ lastResetTimestamp = now
    /\ run = [r \in Runs |-> IdleRun]

InitCron ==
    /\ now = 0
    /\ event = NoEvent
    /\ oauth = NoSigning
    /\ CronStart
    /\ HNStart
    /\ items = [id \in StoryIds |-> InvalidItem(id)]
    /\ env = FullEnv

NextCron ==
    \/ \E d \in Intervals : registerCronJob(d)
    \/ \E t \in Ticks : executeDueJobs(t)
    \/ \E t \in Ticks, how \in Settlements : handlerSettles(t, how)
    \/ listJobs
    \/ cronClock

SpecCron == InitCron /\ [][NextCron]_vars

InitHN ==
    /\ now = 0
    /\ event = NoEvent
    /\ oauth = NoSigning
    /\ CronStart
    /\ HNStart
    /\ items \in ItemWorlds
    /\ env = FullEnv

\* Pipeline runs that follow one another (one call of the handler at a time).
NextHN ==
    \/ \E r \in Runs : startRunAlone(r)
    \/ \E r \in Runs, ids \in IndexLists \cup {<<>>} : topStoriesReturn(r, ids)
    \/ \E r \in Runs, ok \in BOOLEAN : itemReturnsFirstPass(r, ok)
    \/ \E r \in Runs, ok \in BOOLEAN : itemReturnsFallback(r, ok)
    \/ \E r \in Runs, kept \in 0..CommentCount : commentsReturn(r, kept)
    \/ \E r \in Runs, ok \in BOOLEAN, res \in HNReplies : aiReturns(r, ok, res)
    \/ \E r \in Runs, outcome \in PostOutcomes : twitterReturns(r, outcome)
    \/ \E r \in Runs, outcome \in PostOutcomes : telegramReturns(r, outcome)
    \/ \E r \in Runs : finishRun(r)
    \/ hnClock

SpecHN == InitHN /\ [][NextHN]_vars

\* The two job handlers in every environment: runs of either handler that
\* follow one another, over a ranked list of at most one id, with every reply
\* of the completion service and every outcome of the publish requests.
JobWorlds == {w \in ItemWorlds : \A id \in Candidates \ {1} : ~IsValidStory(w[id])}

InitJobs ==
    /\ now = 0
    /\ event = NoEvent
    /\ oauth = NoSigning
    /\ CronStart
    /\ HNStart
    /\ items \in JobWorlds
    /\ env \in Envs

NextJobs ==
    \/ \E r \in Runs : startRunAlone(r)
    \/ \E r \in Runs : startRandomAlone(r)
    \/ \E r \in Runs, w \in WordReplies : wordsReturn(r, w)
    \/ \E r \in Runs, ids \in {Ranked(1), <<>>} : topStoriesReturn(r, ids)
    \/ \E r \in Runs, ok \in BOOLEAN : itemReturnsFirstPass(r, ok)
    \/ \E r \in Runs, ok \in BOOLEAN : itemReturnsFallback(r, ok)
    \/ \E r \in Runs, kept \in 0..CommentCount : commentsReturn(r, kept)
    \/ \E r \in Runs, ok \in BOOLEAN, res \in Replies : aiReturns(r, ok, res)
    \/ \E r \in Runs, outcome \in PostOutcomes : twitterReturns(r, outcome)
    \/ \E r \in Runs, outcome \in PostOutcomes : telegramReturns(r, outcome)
    \/ \E r \in Runs : finishRun(r)

SpecJobs == InitJobs /\ [][NextJobs]_vars

\* The signing of postToTwitter alone: every non-empty set of the parameters,
\* supplied in every order.
InitSign ==
    /\ now = 0
    /\ event = NoEvent
    /\ CronStart
    /\ HNStart
    /\ items = [id \in StoryIds |-> InvalidItem(id)]
    /\ env = FullEnv
    /\ \E keys \in KeyOrders, ck \in ConsumerKeys :
          oauth = [NoSigning EXCEPT !.pc = "called", !.keys = keys, !.consumerKey = ck]

NextSign ==
    \/ buildBaseString
    \/ \E keys \in KeyOrders : callAgain(keys)

SpecSign == InitSign /\ [][NextSign]_vars

\* The scheduled entry point: events that follow one another, each with one of
\* the cron patterns, over a ranked list of at most one id.
InitScheduled ==
    /\ now = 0
    /\ event = NoEvent
    /\ oauth = NoSigning
    /\ CronStart
    /\ HNStart
    /\ items \in JobWorlds
    /\ env = FullEnv

NextScheduled ==
    \/ \E cron \in CronPatterns : scheduledStarts(cron)
    \/ scheduledCompletes
    \/ \E r \in Runs, w \in WordReplies : wordsReturn(r, w)
    \/ \E r \in Runs, ids \in {Ranked(1), <<>>} : topStoriesReturn(r, ids)
    \/ \E r \in Runs, ok \in BOOLEAN : itemReturnsFirstPass(r, ok)
    \/ \E r \in Runs, ok \in BOOLEAN : itemReturnsFallback(r, ok)
    \/ \E r \in Runs, kept \in 0..CommentCount : commentsReturn(r, kept)
    \/ \E r \in Runs, ok \in BOOLEAN, res \in Replies : aiReturns(r, ok, res)
    \/ \E r \in Runs, outcome \in PostOutcomes : twitterReturns(r, outcome)
    \/ \E r \in Runs, outcome \in PostOutcomes : telegramReturns(r, outcome)

SpecScheduled == InitScheduled /\ [][NextScheduled]_vars

\* Pipeline runs that may overlap: the steps of the two runs interleave at
\* their awaits, over a ranked list of at most one id.  The clock stands still,
\* so all runs share one dedup window.
InitOverlap ==
    /\ now = 0
    /\ event = NoEvent
    /\ oauth = NoSigning
    /\ CronStart
    /\ HNStart
    /\ items \in JobWorlds
    /\ env = FullEnv

NextOverlap ==
    \/ \E r \in Runs : startRunOverlapping(r)
    \/ \E r \in Runs, ids \in {Ranked(1), <<>>} : topStoriesReturn(r, ids)
    \/ \E r \in Runs, ok \in BOOLEAN : itemReturnsFirstPass(r, ok)
    \/ \E r \in Runs, ok \in BOOLEAN : itemReturnsFallback(r, ok)
    \/ \E r \in Runs, kept \in 0..CommentCount : commentsReturn(r, kept)
    \/ \E r \in Runs, ok \in BOOLEAN, res \in HNReplies : aiReturns(r, ok, res)
    \/ \E r \in Runs, outcome \in PostOutcomes : twitterReturns(r, outcome)
    \/ \E r \in Runs, outcome \in PostOutcomes : telegramReturns(r, outcome)
    \/ \E r \in Runs : finishRun(r)

SpecOverlap == InitOverlap /\ [][NextOverlap]_vars

\* ---------------------------------------------------------------- claims

\* C1 (as stated): when the awaited handler of a due job settles, resolved or
\* thrown, that job's lastRun becomes the tick time.
C1_LastRunAdvancedOnSettle ==
    [][\A t \in Ticks :
          (ticks[t].pc = "awaiting" /\ ticks'[t] # ticks[t])
              => jobs'[ticks[t].i].lastRun = ticks[t].now]_vars

\* C2: in every tick, each job the loop considered was invoked if and only if
\* tick time - lastRun (as read by the loop) >= interval; the loop considers
\* the jobs in registration order without leaving one out.
C2_InvokedIffDue ==
    \A t \in Ticks :
        /\ \A k \in 1..Len(checks[t]) :
              /\ checks[t][k].job = k
              /\ checks[t][k].invoked <=>
                    (ticks[t].now - checks[t][k].lastRun >= checks[t][k].interval)
        /\ ticks[t].pc = "awaiting" => Len(checks[t]) = ticks[t].i
        /\ ticks[t].pc = "resolved" => Len(checks[t]) = ticks[t].len

\* C2 witness: a job with interval 1000 and lastRun 0 was passed over by a tick
\* at 500 and invoked by a tick at exactly 1000.
C2_Witness ==
    \E t, u \in Ticks :
        /\ ticks[t].now = 500 /\ Len(checks[t]) >= 1
        /\ checks[t][1].interval = 1000 /\ checks[t][1].lastRun = 0
        /\ ~checks[t][1].invoked
        /\ ticks[u].now = 1000 /\ Len(checks[u]) >= 1
        /\ checks[u][1].lastRun = 0 /\ checks[u][1].invoked

\* C3: no call of executeDueJobs rejects, and after a handler threw the loop
\* still considers every later job and invokes the ones that are due.
C3_ThrowDoesNotStopTick ==
    \A t \in Ticks :
        /\ ticks[t].pc # "rejected"
        /\ \A k \in 1..Len(checks[t]) :
              checks[t][k].outcome = "threw" =>
                  /\ ticks[t].pc \in {"awaiting", "resolved"}
                  /\ ticks[t].pc = "awaiting" => ticks[t].i > k
                  /\ ticks[t].pc = "resolved" =>
                        \A j \in (k + 1)..ticks[t].len :
                            /\ j <= Len(checks[t])
                            /\ (ticks[t].now - checks[t][j].lastRun >= checks[t][j].interval)
                                  => checks[t][j].invoked

\* C3 witness: a tick resolved in which one handler threw and a job registered
\* after it was then invoked.
C3_Witness ==
    \E t \in Ticks :
        /\ ticks[t].pc = "resolved"
        /\ \E k, j \in 1..Len(checks[t]) :
              /\ k < j
              /\ checks[t][k].outcome = "threw"
              /\ checks[t][j].invoked

\* The run is past fetchTopStory (it returned a story or null).
SelectionOver(r) == run[r].pc \in {"comments", "ai", "twitter", "telegram", "done"}
\* The run is past the first pass of fetchTopStory.
FirstPassOver(r) == run[r].pc = "item2" \/ SelectionOver(r)
\* The ids the first pass scans.
Scanned(r) == {run[r].ids[k] : k \in 1..Min(30, Len(run[r].ids))}

\* C4: a story returned by the first pass was not in the dedup set the
\* selection worked on; a story that was in it is returned by the fallback pass
\* only, after the set was cleared.
C4_FirstPassNeverReturnsPosted ==
    \A r \in Runs :
        run[r].story # Null =>
            IF run[r].pass = 1
            THEN run[r].story \notin Range(run[r].startSet)
            ELSE run[r].cleared

\* C4 witness: the first pass passed over a higher-ranked id that was in the set
\* and returned a lower-ranked one that was not.
C4_Witness ==
    \E r \in Runs :
        /\ run[r].story # Null /\ run[r].pass = 1
        /\ \E k \in 1..(run[r].i - 1) : run[r].ids[k] \in Range(run[r].startSet)

\* C5 (as stated): the fallback path is taken exactly when the dedup set is
\* non-empty and every scanned id was filtered out by the dedup set.
C5_FallbackIffAllFiltered ==
    \A r \in Runs :
        (FirstPassOver(r) /\ run[r].ids # <<>>) =>
            (run[r].pass = 2 <=>
                (run[r].startSet # <<>> /\ Scanned(r) \subseteq Range(run[r].startSet)))

\* C5 (amended): the fallback path is taken exactly when the first pass returned
\* no item and the dedup set is non-empty; it clears the set, fetches the ids
\* from the first on without filtering, never beyond the tenth, and returns the
\* first one fetched as a valid story.
C5_FallbackIffNothingFound ==
    \A r \in Runs :
        /\ (FirstPassOver(r) /\ run[r].ids # <<>>) =>
              (run[r].pass = 2 <=>
                  (run[r].startSet # <<>> /\ ~(run[r].pass = 1 /\ run[r].story # Null)))
        /\ run[r].pass = 2 <=> run[r].cleared
        /\ run[r].pass = 2 =>
              /\ run[r].i >= 1 /\ run[r].i <= Min(10, Len(run[r].ids))
              /\ run[r].pc = "item2" => postedStories = <<>>
              /\ run[r].story # Null =>
                    /\ run[r].story = run[r].ids[run[r].i]
                    /\ IsValidStory(items[run[r].story])
                    /\ ~run[r].failed =>
                          \A k \in 1..(run[r].i - 1) : ~IsValidStory(items[run[r].ids[k]])
              /\ (SelectionOver(r) /\ run[r].story = Null) =>
                    run[r].i = Min(10, Len(run[r].ids))

\* C5 witness: the fallback pass returned a story after a first pass that had
\* fetched an id (one not filtered by the set) and found it invalid.
C5_Witness ==
    \E r \in Runs :
        /\ run[r].pass = 2 /\ run[r].story # Null
        /\ run[r].fetched # {} /\ ~run[r].failed

\* C6 (as stated): when a valid candidate is among the scanned ids (and no
\* request failed), fetchTopStory returns a story.
C6_ValidCandidateIsReturned ==
    \A r \in Runs :
        (/\ SelectionOver(r)
         /\ ~run[r].failed
         /\ \E id \in Scanned(r) : IsValidStory(items[id]))
            => run[r].story # Null

\* C7 (as stated): with a non-empty dedup set (and no failed request) a
\* selection ends in one of two ways: a story that was not in the set, or, all
\* scanned ids being in the set, the set cleared and a story returned.
C7_TwoOutcomes ==
    \A r \in Runs :
        (SelectionOver(r) /\ run[r].startSet # <<>> /\ ~run[r].failed) =>
            \/ run[r].story # Null /\ run[r].story \notin Range(run[r].startSet)
            \/ /\ Scanned(r) \subseteq Range(run[r].startSet)
               /\ run[r].cleared
               /\ run[r].story # Null

\* C7 (amended): with a non-empty dedup set and a non-empty ranked list a
\* selection ends in one of three ways: the first pass returns a story that was
\* not in the set; or the first pass found nothing, the set is cleared and the
\* fallback returns a valid story among the first 10 ids; or the set is cleared
\* and no item is returned, none of the first 10 ids having been fetched valid.
C7_ThreeOutcomes ==
    \A r \in Runs :
        (SelectionOver(r) /\ run[r].startSet # <<>> /\ run[r].ids # <<>>) =>
            \/ /\ run[r].pass = 1 /\ ~run[r].cleared
               /\ run[r].story # Null
               /\ run[r].story \notin Range(run[r].startSet)
            \/ /\ run[r].pass = 2 /\ run[r].cleared
               /\ run[r].story # Null
               /\ run[r].story \in {run[r].ids[k] : k \in 1..Min(10, Len(run[r].ids))}
               /\ IsValidStory(items[run[r].story])
               /\ run[r].pc = "comments" => postedStories = <<run[r].story>>
            \/ /\ run[r].pass = 2 /\ run[r].cleared
               /\ run[r].story = Null
               /\ postedStories = <<>>
               /\ ~run[r].failed =>
                     \A k \in 1..Min(10, Len(run[r].ids)) : ~IsValidStory(items[run[r].ids[k]])

\* C7 witness: a selection over a non-empty set ended with the set cleared and
\* no item, although no request failed.
C7_Witness ==
    \E r \in Runs :
        /\ run[r].pc = "done" /\ run[r].startSet # <<>> /\ run[r].ids # <<>>
        /\ run[r].cleared /\ run[r].story = Null /\ ~run[r].failed

\* C8 (as stated): a run that selected a story and published nothing does not
\* leave that story's id in the dedup set.
C8_UnpublishedStoryNotInSet ==
    \A r \in Runs :
        (run[r].pc = "done" /\ run[r].story # Null /\ ~run[r].success)
            => run[r].story \notin Range(postedStories)

\* C9 (as stated): no read of the dedup set during a selection happens more
\* than 24h after windowStart.
C9_NoReadOfExpiredWindow ==
    \A r \in Runs : ~run[r].stale

\* C10: a selection that starts more than 24h after windowStart empties the set
\* and moves windowStart to its start time, and the set is still empty at its
\* first lookup; a selection that starts within 24h of windowStart leaves both
\* alone; nothing else moves windowStart.
C10_ExpiryClearsOncePerWindow ==
    [][/\ \A r \in Runs :
            /\ (run[r].pc = "idle" /\ run'[r].pc = "topStories") =>
                  IF now - lastResetTimestamp > 86400000
                  THEN postedStories' = <<>> /\ lastResetTimestamp' = now
                  ELSE postedStories' = postedStories
                          /\ lastResetTimestamp' = lastResetTimestamp
            /\ (run[r].pc = "topStories" /\ run'[r].pc # "topStories" /\ run[r].reset) =>
                  postedStories = <<>> /\ lastResetTimestamp = run[r].startTime
       /\ lastResetTimestamp' # lastResetTimestamp =>
             \E r \in Runs : run[r].pc = "idle" /\ run'[r].pc = "topStories"]_vars

\* C10 witness: the window was reset by a selection at windowStart + 24h + 1ms,
\* the set was filled again, and a later selection inside the new window started
\* on the non-empty set without emptying it.
C10_Witness ==
    \E r \in Runs :
        /\ lastResetTimestamp = 86400000 + 1
        /\ run[r].pc = "topStories" /\ run[r].startTime > lastResetTimestamp
        /\ ~run[r].reset /\ run[r].startSet # <<>> /\ postedStories # <<>>

\* C11: a story returned by the first pass sits at a position up to 30 of the
\* ranked list, was not in the dedup set and was fetched as a valid story; no id
\* ranked before it was eligible (outside the set and a valid story), unless a
\* request failed; and its id is in the dedup set once the selection returned.
C11_FirstEligibleInRankOrder ==
    \A r \in Runs :
        (run[r].pass = 1 /\ run[r].story # Null) =>
            /\ run[r].i >= 1 /\ run[r].i <= 30 /\ run[r].i <= Len(run[r].ids)
            /\ run[r].story = run[r].ids[run[r].i]
            /\ run[r].story \notin Range(run[r].startSet)
            /\ items[run[r].story].url /\ items[run[r].story].kids > 0
            /\ \A k \in 1..(run[r].i - 1) :
                  \/ run[r].ids[k] \in Range(run[r].startSet)
                  \/ run[r].ids[k] \in run[r].fetched
            /\ ~run[r].failed =>
                  \A k \in 1..(run[r].i - 1) :
                      \/ run[r].ids[k] \in Range(run[r].startSet)
                      \/ ~(items[run[r].ids[k]].url /\ items[run[r].ids[k]].kids > 0)
            /\ run[r].story \in Range(postedStories)

\* C11 witness: of a ranked list of 31 ids the first pass returned id 11, id 1
\* being valid but in the set and id 31 being valid, outside the set and ranked
\* after it.
C11_Witness ==
    \E r \in Runs :
        /\ run[r].pass = 1 /\ run[r].story = 11 /\ Len(run[r].ids) = 31
        /\ 1 \in Range(run[r].startSet) /\ IsValidStory(items[1])
        /\ 31 \notin Range(run[r].startSet) /\ IsValidStory(items[31])
        /\ ~run[r].failed

\* The run's call of postTweet has returned.
PostReturned(r) == run[r].pc = "done" /\ run[r].tw # "none"

\* C12: when postTweet has returned, its result is true if and only if the
\* microblog request or the chat request of that call was accepted.
C12_SuccessIffSomeSurfaceAccepted ==
    \A r \in Runs :
        PostReturned(r) =>
            (run[r].success <=> (run[r].tw = "accepted" \/ run[r].tg = "accepted"))

\* C12 witness: the microblog surface accepted, the chat request was rejected,
\* and postTweet returned true.
C12_Witness ==
    \E r \in Runs :
        /\ PostReturned(r) /\ run[r].tw = "accepted" /\ run[r].tg = "rejected"
        /\ run[r].success

\* The escaped form of the tweet text a.b!c, as the chat surface must get it.
EscapedTweet == <<"a", "\\", ".", "b", "\\", "!", "c">>

\* C13 (as stated): in a run whose reply parses to a tweet, each publish surface
\* got exactly one request with the text, escaped for the chat surface.
C13_ExactlyOneRequestEach ==
    \A r \in Runs :
        (PostReturned(r) /\ run[r].reply.json = "tweet") =>
            /\ run[r].twReq = 1 /\ run[r].twText = <<"a", ".", "b", "!", "c">>
            /\ run[r].tgReq = 1 /\ run[r].tgText = <<Prefix(run[r])>> \o EscapedTweet

\* C13 (amended): no surface ever gets a second request; in a run whose reply
\* parses to a tweet the microblog surface got one request with the text when
\* all four of its credentials are present and none otherwise, and the chat
\* surface got one request with the prefixed, escaped text when token and chat
\* id are present and none otherwise, whatever became of the microblog request.
C13_OneRequestPerConfiguredSurface ==
    \A r \in Runs :
        /\ run[r].twReq <= 1 /\ run[r].tgReq <= 1
        /\ (PostReturned(r) /\ run[r].reply.json = "tweet") =>
              /\ run[r].twReq =
                    (IF /\ env.TWITTER_CONSUMER_KEY /\ env.TWITTER_CONSUMER_SECRET
                        /\ env.TWITTER_ACCESS_TOKEN /\ env.TWITTER_ACCESS_SECRET
                     THEN 1 ELSE 0)
              /\ run[r].twReq = 1 => run[r].twText = <<"a", ".", "b", "!", "c">>
              /\ run[r].tgReq = (IF env.TG_BOT_TOKEN /\ env.TG_CHAT_ID THEN 1 ELSE 0)
              /\ run[r].tgReq = 1 => run[r].tgText = <<Prefix(run[r])>> \o EscapedTweet

\* C13 witness: the microblog request threw and the chat surface still got its
\* one request with the escaped text.
C13_Witness ==
    \E r \in Runs :
        /\ PostReturned(r) /\ run[r].reply.json = "tweet"
        /\ run[r].tw = "error" /\ run[r].twReq = 1
        /\ run[r].tgReq = 1 /\ run[r].tgText = <<Prefix(run[r])>> \o EscapedTweet

\* C14: once postTweet was called with one of the four microblog credentials
\* missing, no microblog request was made and nothing was signed, the handler
\* did not throw and the chat surface was attempted; with the chat token or
\* chat id missing the chat surface made no request and reported failure, so
\* that postTweet returned the microblog outcome alone.
C14_MissingCredentialIsNoOp ==
    \A r \in Runs :
        /\ (run[r].tw # "none" /\
            ~(/\ env.TWITTER_CONSUMER_KEY /\ env.TWITTER_CONSUMER_SECRET
              /\ env.TWITTER_ACCESS_TOKEN /\ env.TWITTER_ACCESS_SECRET)) =>
              /\ run[r].twReq = 0 /\ ~run[r].signed
              /\ run[r].tw \in {"skipped", "nocreds"}
              /\ run[r].pc \in {"telegram", "done"}
              /\ run[r].tg # "none"
              /\ (env.TG_BOT_TOKEN /\ env.TG_CHAT_ID) => run[r].tgReq = 1
        /\ (PostReturned(r) /\ ~(env.TG_BOT_TOKEN /\ env.TG_CHAT_ID)) =>
              /\ run[r].tgReq = 0 /\ run[r].tg = "nocreds"
              /\ run[r].success <=> (run[r].tw = "accepted")

\* C14 witness: the consumer key is present, the consumer secret is missing;
\* postTweet returned true because the chat surface accepted.
C14_Witness ==
    \E r \in Runs :
        /\ env.TWITTER_CONSUMER_KEY /\ ~env.TWITTER_CONSUMER_SECRET
        /\ PostReturned(r) /\ run[r].tw = "nocreds" /\ run[r].twReq = 0
        /\ run[r].tg = "accepted" /\ run[r].success

C16_OnlyTheTweetField ==
    \A r \in Runs :
        run[r].reply # NoReply =>
            /\ run[r].reply.json = "tweet" => run[r].content = "tweet text"
            /\ run[r].reply.json # "tweet" => run[r].content = Undefined

\* C17: no run of either handler ends with a rejected promise.
C17_HandlersNeverReject ==
    \A r \in Runs : run[r].pc # "rejected"

\* C17 witness: a run of the random-word handler has settled normally after
\* the request for the words threw.
C17_Witness ==
    \E r \in Runs :
        run[r].pc = "done" /\ run[r].job = "rw" /\ run[r].words = NetworkError

\* C18: a step changes the lastRun of a job only when a tick that awaits that
\* job's handler moves on, and then to that tick's time and for that job alone;
\* no step removes a job; so a registration, listJobs, the start of a tick and
\* the settling of another job's handler leave it unchanged.
C18_LastRunFrame ==
    [][/\ Len(jobs') >= Len(jobs)
       /\ \A j \in 1..Len(jobs) :
             jobs'[j].lastRun # jobs[j].lastRun =>
                /\ \E t \in Ticks :
                      /\ ticks[t].pc = "awaiting" /\ ticks[t].i = j
                      /\ ticks'[t] # ticks[t]
                      /\ jobs'[j].lastRun = ticks[t].now
                /\ \A k \in 1..Len(jobs) \ {j} : jobs'[k].lastRun = jobs[k].lastRun]_vars

\* C18 witness: the second job's handler ran in a tick and resolved, the first
\* job's handler ran in one and threw; the second job's lastRun was written, the
\* first job's is still 0.
C18_Witness ==
    /\ Len(jobs) = 2 /\ jobs[1].lastRun = 0 /\ jobs[2].lastRun > 0
    /\ \E t \in Ticks :
          /\ Len(checks[t]) >= 1 /\ checks[t][1].outcome = "threw"

\* C19: in every tick the loop's entries are in registration order, and an
\* invoked handler that has not settled is the tick's latest entry, the one the
\* tick awaits: every handler invoked before it in that tick has settled.
C19_OneHandlerAtATime ==
    \A t \in Ticks :
        \A k \in 1..Len(checks[t]) :
            /\ checks[t][k].job = k
            /\ checks[t][k].outcome = "pending" =>
                  /\ k = Len(checks[t])
                  /\ ticks[t].pc = "awaiting" /\ ticks[t].i = k
            /\ (checks[t][k].invoked /\ k < Len(checks[t])) =>
                  checks[t][k].outcome \in Settlements

\* C19 witness: in one tick the first job's handler has settled and the second
\* job's handler is in progress.
C19_Witness ==
    \E t \in Ticks :
        /\ Len(checks[t]) = 2
        /\ checks[t][1].invoked /\ checks[t][1].outcome \in Settlements
        /\ checks[t][2].outcome = "pending"

\* The parameter names in lexicographic order, written out.
C20_LexOrder ==
    <<"oauth_consumer_key", "oauth_nonce", "oauth_signature_method",
      "oauth_timestamp", "oauth_token", "oauth_version">>

\* C20: for every non-empty set of the parameters and every order in which they
\* are supplied, the pairs of the base string are the supplied parameters, each
\* once, in lexicographic order of their names; the base string is the one built
\* from them in that order, and it equals the base string of the call before,
\* which supplied the same parameters in another order.
C20_BaseStringSortedByKey ==
    oauth.pc = "built" =>
        LET Supplied(key) == key \in Range(oauth.keys)
            sorted == SelectSeq(C20_LexOrder, Supplied)
        IN /\ Len(oauth.pairs) = Len(oauth.keys)
           /\ \A k \in 1..Len(oauth.pairs) : oauth.pairs[k].key = sorted[k]
           /\ oauth.base = SignatureBaseString(PairsOf(sorted, oauth.consumerKey))
           /\ oauth.before # <<>> => oauth.base = oauth.before

\* C20 witness: all six parameters were supplied in descending order, after a
\* call that supplied them in another order, with a consumer key that needs
\* encoding; the base string was built.
C20_Witness ==
    /\ oauth.pc = "built" /\ oauth.before # <<>>
    /\ oauth.consumerKey = <<"c", "&", "k">>
    /\ oauth.keys = <<"oauth_version", "oauth_token", "oauth_timestamp",
                      "oauth_signature_method", "oauth_nonce", "oauth_consumer_key">>

\* C23 (as stated): no two ticks await the handler of the same job at the same
\* time, so a job is not invoked again while an earlier invocation of it has
\* not settled.
C23_NoSecondInvocationWhilePending ==
    \A t, u \in Ticks :
        (t # u /\ ticks[t].pc = "awaiting" /\ ticks[u].pc = "awaiting")
            => ticks[t].i # ticks[u].i

\* C24 (as stated): no step lowers the lastRun of a job, and after every step
\* the lastRun of every job is at most the current time.
C24_LastRunMonotone ==
    [][\A j \in 1..Len(jobs) :
          /\ jobs'[j].lastRun >= jobs[j].lastRun
          /\ jobs'[j].lastRun <= now']_vars

\* C21 (as stated): a completed scheduled event has invoked at least one job
\* handler, and an event whose pattern is neither of the two known ones has
\* invoked both.
C21_FallbackRunsBothJobs ==
    event.pc = "completed" =>
        /\ event.ran # {}
        /\ event.cron \notin {"0 */2 * * *", "0 */5 * * *"} => event.ran = {"rw", "hn"}

\* C22 (as stated): of two runs in progress in one dedup window, the first pass
\* of one never returns the story the first pass of the other has returned.
C22_OverlappingRunsSelectDifferentStories ==
    \A r, o \in Runs :
        (r # o /\ run[r].pass = 1 /\ run[o].pass = 1 /\ run[r].story # Null)
            => run[o].story # run[r].story

====
